---- MODULE Spec2Model ----
(***************************************************************************)
(* A model of the DMP-Intellisense backend stub:                           *)
(*   src/dmp-intellisense-source/src/graph.py   GraphService               *)
(*   src/dmp-intellisense-source/src/agents.py  AgentService               *)
(*   src/dmp-intellisense-source/src/routes.py  the Flask blueprint        *)
(* Python strings (node ids, messages, document contents) are sequences of *)
(* one-character strings; dict keys (keyword names, JSON field names) are   *)
(* TLA+ strings; a dict is a function whose DOMAIN is its key set.          *)
(***************************************************************************)
EXTENDS Naturals, Sequences, FiniteSets, TLC

VARIABLES
    graph,   \* GraphService._graph: the networkx Graph (_node, _adj)
    lock,    \* GraphService._lock: TRUE while the threading.Lock is held
    pc,      \* per thread: where it stands in the operation it runs
    req,     \* per thread: the call or HTTP request it last issued
    resp,    \* per thread: what that call returned / the HTTP response
    added,   \* history: the ids add_node was called with
    endpoints \* history: the ids add_edge was called with, as source or target

vars == <<graph, lock, pc, req, resp, added, endpoints>>

(***************************************************************************)
(* Bounds of the model and constants of the program.                       *)
(***************************************************************************)
\* attribute values are 1..MaxVal
MaxVal == 2
\* the longest document content that is posted
MaxContentLen == 250
\* routes.py: summary = content[:100]
SummaryLen == 100

Threads == {"t1", "t2"}
MainThread == "t1"
Ids == {<<"a">>, <<"b">>}
Keys == {"k"}
Vals == 1..MaxVal

\* keyword-argument dicts: every function from a subset of Keys to Vals
AttrDicts == UNION {[ks -> Vals] : ks \in SUBSET Keys}
EmptyDict == <<>>

\* Python's None, as the value of a local variable or of a return
None == [isNone |-> TRUE]
Str(s) == [isNone |-> FALSE, str |-> s]

(***************************************************************************)
(* networkx.Graph, as graph.py uses it.                                     *)
(*   G.node  : _node, node id -> attribute dict                             *)
(*   G.adj   : _adj, node id -> its neighbours in insertion order (the keys *)
(*             of the inner dict)                                           *)
(*   G.eattr : the edge data dicts; _adj[u][v] and _adj[v][u] are the same  *)
(*             dict object, so it is keyed by the unordered pair {u, v}     *)
(***************************************************************************)
EmptyGraph == [node |-> <<>>, adj |-> <<>>, eattr |-> <<>>]

\* f with key k bound to v (a new key is added, an old one rebound)
Put(f, k, v) == [x \in DOMAIN f \cup {k} |-> IF x = k THEN v ELSE f[x]]

\* dict.update: the keys of a overwrite, the other keys of d stay
DictUpdate(d, a) ==
    [k \in DOMAIN d \cup DOMAIN a |-> IF k \in DOMAIN a THEN a[k] ELSE d[k]]

InSeq(s, x) == \E i \in 1..Len(s) : s[i] = x

\* a list in place of the dict: a neighbour named again is entered again
AppendKey_Always(s, x) == Append(s, x)

\* a dict keeps a key's first insertion position
AppendKey(s, x) == IF InSeq(s, x) THEN s ELSE Append(s, x)

\* `n in G`: membership in _node
Contains(G, n) == n \in DOMAIN G.node

\* the node's dicts are made anew although the node is there
EnsureNode_Reset(G, n) ==
    [G EXCEPT !.node = Put(G.node, n, EmptyDict),
              !.adj = IF n \in DOMAIN G.adj THEN G.adj ELSE Put(G.adj, n, <<>>)]

\* networkx add_node/add_edge: a node that is not there gets an empty
\* adjacency dict and an empty attribute dict
EnsureNode(G, n) ==
    IF Contains(G, n) THEN G
    ELSE [G EXCEPT !.node = Put(G.node, n, EmptyDict),
                   !.adj = Put(G.adj, n, <<>>)]

\* the attribute dict is replaced, not updated
NodeUpdate_Replace(G, n, attrs) ==
    [G EXCEPT !.node = Put(G.node, n, attrs)]

\* networkx add_node: self._node[n].update(attr)
NodeUpdate(G, n, attrs) ==
    [G EXCEPT !.node = Put(G.node, n, DictUpdate(G.node[n], attrs))]

EdgeData(G, u, v) ==
    IF {u, v} \in DOMAIN G.eattr THEN G.eattr[{u, v}] ELSE EmptyDict

\* networkx add_edge: datadict = _adj[u].get(v, {}); datadict.update(attr);
\* _adj[u][v] = datadict
LinkForward(G, u, v, attrs) ==
    [G EXCEPT !.eattr = Put(G.eattr, {u, v}, DictUpdate(EdgeData(G, u, v), attrs)),
              !.adj = Put(G.adj, u, AppendKey(G.adj[u], v))]

\* networkx add_edge: _adj[v][u] = datadict
LinkBack(G, u, v) ==
    [G EXCEPT !.adj = Put(G.adj, v, AppendKey(G.adj[v], u))]

\* self._graph.add_node(node_id, **attrs)
nx_add_node(G, n, attrs) == NodeUpdate(EnsureNode(G, n), n, attrs)

\* the edge is entered at its source only and the target is not made a node
nx_add_edge_SourceOnly(G, u, v, attrs) ==
    LinkForward(EnsureNode(G, u), u, v, attrs)

\* self._graph.add_edge(source, target, **attrs)
nx_add_edge(G, u, v, attrs) ==
    LinkBack(LinkForward(EnsureNode(EnsureNode(G, u), v), u, v, attrs), u, v)

\* list(self._graph.edges(node_id)): one (node_id, nbr) pair per neighbour
EdgesOf(G, n) == [i \in 1..Len(G.adj[n]) |-> <<n, G.adj[n][i]>>]

\* no early return: the three keys are filled in for an absent node too
QueryResult_NoEarlyReturn(G, n) ==
    [exists |-> Contains(G, n),
     data |-> IF Contains(G, n) THEN G.node[n] ELSE EmptyDict,
     edges |-> IF Contains(G, n) THEN EdgesOf(G, n) ELSE <<>>]

\* the dict query_node returns
QueryResult(G, n) ==
    IF ~Contains(G, n) THEN [exists |-> FALSE]
    ELSE [exists |-> TRUE, data |-> G.node[n], edges |-> EdgesOf(G, n)]

(***************************************************************************)
(* The state after construction: graph_service = GraphService().           *)
(***************************************************************************)
NoReq == [op |-> "none"]
NoResp == [kind |-> "none"]
Returned(v) == [kind |-> "return", value |-> v]

Init ==
    /\ graph = EmptyGraph
    /\ lock = FALSE
    /\ pc = [t \in Threads |-> "idle"]
    /\ req = [t \in Threads |-> NoReq]
    /\ resp = [t \in Threads |-> NoResp]
    /\ added = {}
    /\ endpoints = {}

(***************************************************************************)
(* threading.Lock: entering `with self._lock` blocks until the lock is      *)
(* free and takes it; leaving the block, by its end or by a return, frees   *)
(* it.                                                                      *)
(***************************************************************************)
\* no lock: the block is entered at once
CanAcquire_NoLock == TRUE

CanAcquire == lock = FALSE

\* acquire() and release() by hand: the early return skips release()
with_exit_SkippedOnEarlyReturn(t) == resp[t] = Returned([exists |-> FALSE])

\* the lock once thread t has left the with block
with_exit(t) == FALSE

(***************************************************************************)
(* The operations of GraphService, each run from call to return by one      *)
(* caller: `with self._lock` takes the free lock and gives it back.         *)
(***************************************************************************)
add_node(t, kwargs) ==
    \E n \in Ids, attrs \in kwargs :
        /\ pc[t] = "idle" /\ CanAcquire
        /\ graph' = nx_add_node(graph, n, attrs)
        /\ lock' = with_exit(t)
        /\ req' = [req EXCEPT ![t] = [op |-> "add_node", node_id |-> n, attrs |-> attrs]]
        /\ resp' = [resp EXCEPT ![t] = Returned(None)]
        /\ added' = added \cup {n}
        /\ UNCHANGED <<pc, endpoints>>

add_edge(t, kwargs) ==
    \E u \in Ids, v \in Ids, attrs \in kwargs :
        /\ pc[t] = "idle" /\ CanAcquire
        /\ graph' = nx_add_edge(graph, u, v, attrs)
        /\ lock' = with_exit(t)
        /\ req' = [req EXCEPT ![t] =
                     [op |-> "add_edge", source |-> u, target |-> v, attrs |-> attrs]]
        /\ resp' = [resp EXCEPT ![t] = Returned(None)]
        /\ endpoints' = endpoints \cup {u, v}
        /\ UNCHANGED <<pc, added>>

query_node(t) ==
    \E n \in Ids :
        /\ pc[t] = "idle" /\ CanAcquire
        /\ lock' = with_exit(t)
        /\ req' = [req EXCEPT ![t] = [op |-> "query_node", node_id |-> n]]
        /\ resp' = [resp EXCEPT ![t] = Returned(QueryResult(graph, n))]
        /\ UNCHANGED <<graph, pc, added, endpoints>>

(***************************************************************************)
(* agents.py                                                                *)
(***************************************************************************)
ProcessedPrefix == <<"P", "r", "o", "c", "e", "s", "s", "e", "d", ":", " ">>

\* AgentService.process_message: f"Processed: {message}"
process_message(message) == ProcessedPrefix \o message

(***************************************************************************)
(* routes.py.  A request is a method, a path and a JSON object (payload);   *)
(* the fields the handlers read hold strings, as the interface declares.    *)
(***************************************************************************)
\* what register_routes(app) registers: the rules of the blueprint
register_routes ==
    { [path |-> "/graph/query", method |-> "POST", endpoint |-> "graph_query"],
      [path |-> "/chat", method |-> "POST", endpoint |-> "chat"],
      [path |-> "/document/analyze", method |-> "POST", endpoint |-> "document_analyze"] }

Methods == {"GET", "POST"}
RequestPaths == {r.path : r \in register_routes} \cup {"/graph/all"}

\* Flask's dispatch: the rule of this path and method
Routed(method, path, endpoint) ==
    [path |-> path, method |-> method, endpoint |-> endpoint] \in register_routes

\* the JSON objects with at most the one field, holding one of the values
Payloads(field, values) == {<<>>} \cup {[f \in {field} |-> v] : v \in values}

\* payload.get(field): None when the key is absent
Get(payload, field) ==
    IF field \in DOMAIN payload THEN Str(payload[field]) ELSE None

\* payload.get(field, default)
GetDefault(payload, field, default) ==
    IF field \in DOMAIN payload THEN Str(payload[field]) ELSE Str(default)

\* `x is None` in place of `not x`: the empty string passes
Not_NoneOnly(x) == x.isNone

\* Python's `not x` for None and for a string
Not(x) == IF x.isNone THEN TRUE ELSE x.str = <<>>

\* the slice is forgotten
Prefix_NoCut(s, n) == s

\* content[:n]
Prefix(s, n) == SubSeq(s, 1, IF Len(s) < n THEN Len(s) ELSE n)

Http(method, path, payload) ==
    [op |-> "http", method |-> method, path |-> path, payload |-> payload]
Response(status, json) == [kind |-> "http", status |-> status, json |-> json]

NodeValues == Ids \cup {<<>>}
MessageValues == {<<>>, <<"h", "i">>}
ContentChar(i) == IF i % 7 < 3 THEN "x" ELSE "y"
Content(n) == [i \in 1..n |-> ContentChar(i)]
ContentLens == {0, 1, SummaryLen - 1, SummaryLen, SummaryLen + 1, MaxContentLen}
ContentValues == {Content(n) : n \in ContentLens}

\* what graph_query answers to a payload, given the graph
graph_query_response(G, payload) ==
    LET node_id == Get(payload, "node")
    IN  IF Not(node_id)
        THEN Response(400, [error |-> "'node' is required"])
        ELSE Response(200, QueryResult(G, node_id.str))

graph_query(t) ==
    \E payload \in Payloads("node", NodeValues) :
        /\ Routed("POST", "/graph/query", "graph_query")
        /\ pc[t] = "idle"
        \* query_node runs only past the check, and needs the lock
        /\ IF Not(Get(payload, "node")) THEN TRUE ELSE CanAcquire
        /\ req' = [req EXCEPT ![t] = Http("POST", "/graph/query", payload)]
        /\ resp' = [resp EXCEPT ![t] = graph_query_response(graph, payload)]
        /\ UNCHANGED <<graph, lock, pc, added, endpoints>>

chat_response(payload) ==
    LET message == Get(payload, "message")
    IN  IF Not(message)
        THEN Response(400, [error |-> "'message' is required"])
        ELSE Response(200, [response |-> process_message(message.str)])

chat(t) ==
    \E payload \in Payloads("message", MessageValues) :
        /\ Routed("POST", "/chat", "chat")
        /\ pc[t] = "idle"
        /\ req' = [req EXCEPT ![t] = Http("POST", "/chat", payload)]
        /\ resp' = [resp EXCEPT ![t] = chat_response(payload)]
        /\ UNCHANGED <<graph, lock, pc, added, endpoints>>

document_analyze_response(payload) ==
    LET content == GetDefault(payload, "content", <<>>).str
        summary == Prefix(content, SummaryLen)
    IN  Response(200, [summary |-> summary, length |-> Len(content)])

document_analyze(t) ==
    \E payload \in Payloads("content", ContentValues) :
        /\ Routed("POST", "/document/analyze", "document_analyze")
        /\ pc[t] = "idle"
        /\ req' = [req EXCEPT ![t] = Http("POST", "/document/analyze", payload)]
        /\ resp' = [resp EXCEPT ![t] = document_analyze_response(payload)]
        /\ UNCHANGED <<graph, lock, pc, added, endpoints>>

\* a path no rule has: Flask answers 404 and runs no handler
NotFound(t) ==
    \E method \in Methods, path \in RequestPaths :
        /\ \A r \in register_routes : r.path # path
        /\ pc[t] = "idle"
        /\ req' = [req EXCEPT ![t] = Http(method, path, <<>>)]
        /\ resp' = [resp EXCEPT ![t] = Response(404, None)]
        /\ UNCHANGED <<graph, lock, pc, added, endpoints>>

\* a path with a rule, but none for this method: Flask answers 405
MethodNotAllowed(t) ==
    \E method \in Methods, path \in RequestPaths :
        /\ \E r \in register_routes : r.path = path
        /\ \A r \in register_routes : r.path = path => r.method # method
        /\ pc[t] = "idle"
        /\ req' = [req EXCEPT ![t] = Http(method, path, <<>>)]
        /\ resp' = [resp EXCEPT ![t] = Response(405, None)]
        /\ UNCHANGED <<graph, lock, pc, added, endpoints>>

(***************************************************************************)
(* Spec: one caller of the graph service, every keyword dict.               *)
(***************************************************************************)
Next ==
    \/ add_node(MainThread, AttrDicts)
    \/ add_edge(MainThread, AttrDicts)
    \/ query_node(MainThread)

Spec == Init /\ [][Next]_vars

(***************************************************************************)
(* WebSpec: the application after register_routes(app), one client; the     *)
(* graph is filled as the integration test fills it, by direct calls.       *)
(***************************************************************************)
WebNext ==
    \/ add_node(MainThread, AttrDicts)
    \/ add_edge(MainThread, {EmptyDict})
    \/ graph_query(MainThread)
    \/ chat(MainThread)
    \/ document_analyze(MainThread)
    \/ NotFound(MainThread)
    \/ MethodNotAllowed(MainThread)

WebSpec == Init /\ [][WebNext]_vars

(***************************************************************************)
(* ConcSpec: the threads of the server call the graph service               *)
(* concurrently.  A call is taken apart into the steps another thread could *)
(* fall between: waiting for the lock, each access to the graph, leaving    *)
(* the with block.                                                          *)
(*   pc = "idle"      no call in progress                                   *)
(*        "acquire"   called, at `with self._lock`                          *)
(*        "n_create", "n_update"                    networkx add_node       *)
(*        "e_source", "e_target", "e_forward", "e_back"   networkx add_edge *)
(*        "q_contains", "q_data", "q_edges"         the body of query_node  *)
(*        "release"   the return value is computed, the block is being left *)
(***************************************************************************)
\* the threads call add_node with no keyword or with k=1, add_edge with none
ConcKwargs == {EmptyDict, [k |-> 1]}

Inside == {"n_create", "n_update", "e_source", "e_target", "e_forward", "e_back",
           "q_contains", "q_data", "q_edges", "release"}

FirstStep(op) ==
    CASE op = "add_node" -> "n_create"
      [] op = "add_edge" -> "e_source"
      [] op = "query_node" -> "q_contains"

Partial(fields) == [kind |-> "partial", fields |-> fields]

CallAddNode(t) ==
    \E n \in Ids, attrs \in ConcKwargs :
        /\ pc[t] = "idle"
        /\ pc' = [pc EXCEPT ![t] = "acquire"]
        /\ req' = [req EXCEPT ![t] = [op |-> "add_node", node_id |-> n, attrs |-> attrs]]
        /\ resp' = [resp EXCEPT ![t] = NoResp]
        /\ added' = added \cup {n}
        /\ UNCHANGED <<graph, lock, endpoints>>

CallAddEdge(t) ==
    \E u \in Ids, v \in Ids :
        /\ pc[t] = "idle"
        /\ pc' = [pc EXCEPT ![t] = "acquire"]
        /\ req' = [req EXCEPT ![t] =
                     [op |-> "add_edge", source |-> u, target |-> v, attrs |-> EmptyDict]]
        /\ resp' = [resp EXCEPT ![t] = NoResp]
        /\ endpoints' = endpoints \cup {u, v}
        /\ UNCHANGED <<graph, lock, added>>

CallQueryNode(t) ==
    \E n \in Ids :
        /\ pc[t] = "idle"
        /\ pc' = [pc EXCEPT ![t] = "acquire"]
        /\ req' = [req EXCEPT ![t] = [op |-> "query_node", node_id |-> n]]
        /\ resp' = [resp EXCEPT ![t] = NoResp]
        /\ UNCHANGED <<graph, lock, added, endpoints>>

\* with self._lock: __enter__
Acquire(t) ==
    /\ pc[t] = "acquire"
    /\ CanAcquire
    /\ lock' = TRUE
    /\ pc' = [pc EXCEPT ![t] = FirstStep(req[t].op)]
    /\ UNCHANGED <<graph, req, resp, added, endpoints>>

GraphStep(t, from, to, G) ==
    /\ pc[t] = from
    /\ graph' = G
    /\ pc' = [pc EXCEPT ![t] = to]
    /\ UNCHANGED <<lock, req, resp, added, endpoints>>

NodeCreate(t) ==
    GraphStep(t, "n_create", "n_update", EnsureNode(graph, req[t].node_id))

NodeAttrs(t) ==
    /\ pc[t] = "n_update"
    /\ graph' = NodeUpdate(graph, req[t].node_id, req[t].attrs)
    /\ pc' = [pc EXCEPT ![t] = "release"]
    /\ resp' = [resp EXCEPT ![t] = Returned(None)]
    /\ UNCHANGED <<lock, req, added, endpoints>>

EdgeSource(t) ==
    GraphStep(t, "e_source", "e_target", EnsureNode(graph, req[t].source))

EdgeTarget(t) ==
    GraphStep(t, "e_target", "e_forward", EnsureNode(graph, req[t].target))

EdgeForward(t) ==
    GraphStep(t, "e_forward", "e_back",
              LinkForward(graph, req[t].source, req[t].target, req[t].attrs))

EdgeBack(t) ==
    /\ pc[t] = "e_back"
    /\ graph' = LinkBack(graph, req[t].source, req[t].target)
    /\ pc' = [pc EXCEPT ![t] = "release"]
    /\ resp' = [resp EXCEPT ![t] = Returned(None)]
    /\ UNCHANGED <<lock, req, added, endpoints>>

\* if node_id not in self._graph: return {"exists": False}
QueryContains(t) ==
    /\ pc[t] = "q_contains"
    /\ IF ~Contains(graph, req[t].node_id)
       THEN /\ resp' = [resp EXCEPT ![t] = Returned([exists |-> FALSE])]
            /\ pc' = [pc EXCEPT ![t] = "release"]
       ELSE /\ resp' = [resp EXCEPT ![t] = Partial([exists |-> TRUE])]
            /\ pc' = [pc EXCEPT ![t] = "q_data"]
    /\ UNCHANGED <<graph, lock, req, added, endpoints>>

\* "data": dict(self._graph.nodes[node_id])
QueryData(t) ==
    /\ pc[t] = "q_data"
    /\ resp' = [resp EXCEPT ![t] =
                  Partial([exists |-> TRUE, data |-> graph.node[req[t].node_id]])]
    /\ pc' = [pc EXCEPT ![t] = "q_edges"]
    /\ UNCHANGED <<graph, lock, req, added, endpoints>>

\* "edges": list(self._graph.edges(node_id))
QueryEdges(t) ==
    /\ pc[t] = "q_edges"
    /\ resp' = [resp EXCEPT ![t] =
                  Returned([exists |-> TRUE, data |-> resp[t].fields.data,
                            edges |-> EdgesOf(graph, req[t].node_id)])]
    /\ pc' = [pc EXCEPT ![t] = "release"]
    /\ UNCHANGED <<graph, lock, req, added, endpoints>>

\* with self._lock: __exit__, and the return: the caller has the value, the
\* thread's record of the call is dropped
Release(t) ==
    /\ pc[t] = "release"
    /\ lock' = with_exit(t)
    /\ pc' = [pc EXCEPT ![t] = "idle"]
    /\ req' = [req EXCEPT ![t] = NoReq]
    /\ resp' = [resp EXCEPT ![t] = NoResp]
    /\ UNCHANGED <<graph, added, endpoints>>

\* the steps of a call in progress, past the wait for the lock
Body(t) ==
    \/ NodeCreate(t) \/ NodeAttrs(t)
    \/ EdgeSource(t) \/ EdgeTarget(t) \/ EdgeForward(t) \/ EdgeBack(t)
    \/ QueryContains(t) \/ QueryData(t) \/ QueryEdges(t)
    \/ Release(t)

ConcNext ==
    \E t \in Threads :
        \/ CallAddNode(t) \/ CallAddEdge(t) \/ CallQueryNode(t)
        \/ Acquire(t)
        \/ Body(t)

ConcSpec == Init /\ [][ConcNext]_vars

\* a running thread keeps taking steps, and a thread that can take the lock
\* again and again does take it
FairSpec ==
    /\ Init /\ [][ConcNext]_vars
    /\ \A t \in Threads : WF_vars(Body(t)) /\ SF_vars(Acquire(t))

(***************************************************************************)
(* Properties of the graph service (Spec).                                  *)
(***************************************************************************)
\* the ids some add_node or add_edge call has named
EverAdded == added \cup endpoints

\* how often the pair (u, v), in either order, occurs in a list of pairs
Occurrences(edges, u, v) ==
    Cardinality({i \in 1..Len(edges) : edges[i] = <<u, v>> \/ edges[i] = <<v, u>>})

\* new is old with the keys of attrs overwritten and its other keys kept
Merged(old, attrs, new) ==
    /\ DOMAIN new = DOMAIN old \cup DOMAIN attrs
    /\ \A k \in DOMAIN attrs : new[k] = attrs[k]
    /\ \A k \in DOMAIN old \ DOMAIN attrs : new[k] = old[k]

\* C1: when add_edge(source, target) has returned, whether or not the ids
\* were in the graph before, query_node(source) and query_node(target) say
\* exists and the edges of query_node(source) hold the pair (source, target)
\* up to the order of its endpoints; and every id add_edge was ever called
\* with still exists and has an edge.
C1_EdgeVisibleAfterAddEdge ==
    /\ req[MainThread].op = "add_edge" =>
          LET s == req[MainThread].source
              t == req[MainThread].target
              qs == QueryResult(graph, s)
              qt == QueryResult(graph, t)
          IN  /\ qs.exists
              /\ qt.exists
              /\ "edges" \in DOMAIN qs
              /\ Occurrences(qs.edges, s, t) >= 1
    /\ \A n \in endpoints :
          LET q == QueryResult(graph, n)
          IN  q.exists /\ "edges" \in DOMAIN q /\ q.edges # <<>>

\* an add_edge between two distinct ids neither of which add_node ever named
C1_Witness ==
    /\ req[MainThread].op = "add_edge"
    /\ req[MainThread].source # req[MainThread].target
    /\ req[MainThread].source \notin added
    /\ req[MainThread].target \notin added
    /\ resp[MainThread] = Returned(None)

EndpointsExist(G) ==
    /\ DOMAIN G.adj \subseteq DOMAIN G.node
    /\ \A n \in DOMAIN G.adj : \A i \in 1..Len(G.adj[n]) : G.adj[n][i] \in DOMAIN G.node
    /\ \A e \in DOMAIN G.eattr : e \subseteq DOMAIN G.node

\* C3: after every step both endpoints of every edge are nodes, and an
\* add_edge step leaves an endpoint that was a node with the attributes it
\* had and makes an endpoint that was none a node with the empty mapping.
C3_EndpointsAreNodes ==
    [][ /\ EndpointsExist(graph')
        /\ req'[MainThread].op = "add_edge" =>
             \A n \in {req'[MainThread].source, req'[MainThread].target} :
                /\ n \in DOMAIN graph'.node
                /\ graph'.node[n] =
                     IF n \in DOMAIN graph.node THEN graph.node[n] ELSE EmptyDict
      ]_vars

\* add_edge made its source a node and kept the attributes of its target
C3_Witness ==
    /\ req[MainThread].op = "add_edge"
    /\ req[MainThread].source \notin added
    /\ req[MainThread].target \in added
    /\ graph.node[req[MainThread].source] = EmptyDict
    /\ graph.node[req[MainThread].target] # EmptyDict

\* C4: for an id no add_node or add_edge call has named, query_node returns
\* the dict whose only key is exists, with the value false.
C4_AbsentNodeQuery ==
    \A n \in Ids \ EverAdded :
        /\ QueryResult(graph, n) = [exists |-> FALSE]
        /\ DOMAIN QueryResult(graph, n) = {"exists"}
        /\ (req[MainThread].op = "query_node" /\ req[MainThread].node_id = n) =>
              /\ resp[MainThread].kind = "return"
              /\ resp[MainThread].value = [exists |-> FALSE]
              /\ DOMAIN resp[MainThread].value = {"exists"}

\* a query for an id never added, after other ids were added and endpoints
C4_Witness ==
    /\ req[MainThread].op = "query_node"
    /\ req[MainThread].node_id \notin EverAdded
    /\ added # {}
    /\ endpoints # {}

NoParallelEdges(G) ==
    \A n \in DOMAIN G.adj :
        \A i, j \in 1..Len(G.adj[n]) : G.adj[n][i] = G.adj[n][j] => i = j

\* C5: no node lists a neighbour twice, and an add_edge step between two
\* ids that already had an edge, given in either order, leaves the nodes,
\* the adjacency and the set of edges as they were, merges the attributes
\* given into the attributes of that edge and leaves the pair listed once.
C5_AddEdgeIdempotent ==
    [][ /\ NoParallelEdges(graph')
        /\ (/\ req'[MainThread].op = "add_edge"
            /\ {req'[MainThread].source, req'[MainThread].target} \in DOMAIN graph.eattr) =>
             LET s == req'[MainThread].source
                 t == req'[MainThread].target
             IN  /\ graph'.node = graph.node
                 /\ graph'.adj = graph.adj
                 /\ DOMAIN graph'.eattr = DOMAIN graph.eattr
                 /\ \A e \in DOMAIN graph.eattr \ {{s, t}} : graph'.eattr[e] = graph.eattr[e]
                 /\ Merged(graph.eattr[{s, t}], req'[MainThread].attrs, graph'.eattr[{s, t}])
                 /\ Occurrences(QueryResult(graph', s).edges, s, t) = 1
                 /\ Occurrences(QueryResult(graph', t).edges, s, t) = 1
      ]_vars

\* add_edge with no attributes on a pair whose edge has an attribute, which
\* is therefore of an earlier add_edge: kept, and the pair is listed once
C5_Witness ==
    /\ req[MainThread].op = "add_edge"
    /\ req[MainThread].source # req[MainThread].target
    /\ req[MainThread].attrs = EmptyDict
    /\ graph.eattr[{req[MainThread].source, req[MainThread].target}] = [k |-> 2]
    /\ graph.adj[req[MainThread].source] = <<req[MainThread].target>>
    /\ graph.adj[req[MainThread].target] = <<req[MainThread].source>>

\* C6: an add_node step for an id that is a node leaves the node set, the
\* other nodes and all edges as they were and merges the attributes given
\* into the node's own (with none given the graph is unchanged); for an id
\* that is no node it adds that one node, with the attributes given.
C6_AddNodeIdempotent ==
    [][ req'[MainThread].op = "add_node" =>
          LET n == req'[MainThread].node_id
              attrs == req'[MainThread].attrs
          IN  /\ graph'.adj = IF n \in DOMAIN graph.node THEN graph.adj
                              ELSE Put(graph.adj, n, <<>>)
              /\ graph'.eattr = graph.eattr
              /\ DOMAIN graph'.node = DOMAIN graph.node \cup {n}
              /\ \A o \in DOMAIN graph.node \ {n} : graph'.node[o] = graph.node[o]
              /\ IF n \in DOMAIN graph.node
                 THEN /\ Merged(graph.node[n], attrs, graph'.node[n])
                      /\ attrs = EmptyDict => graph' = graph
                 ELSE graph'.node[n] = attrs
      ]_vars

\* add_node with no attributes on a node that has an attribute and an edge
C6_Witness ==
    /\ req[MainThread].op = "add_node"
    /\ req[MainThread].attrs = EmptyDict
    /\ graph.node[req[MainThread].node_id] # EmptyDict
    /\ graph.adj[req[MainThread].node_id] # <<>>

(***************************************************************************)
(* Properties of the request handlers (WebSpec).                            *)
(***************************************************************************)
IsHttp(r, method, path) ==
    IF r.op = "http" THEN r.method = method /\ r.path = path ELSE FALSE

\* the string a payload holds under a field, the empty string if it has none
Field(payload, field) == IF field \in DOMAIN payload THEN payload[field] ELSE <<>>

\* C7: a POST /graph/query step and a POST /chat step leave the graph and
\* the lock as they were; with the field (node, message) absent or empty the
\* response is 400 with the fixed error payload, otherwise it is 200 with
\* the query_node result, respectively with response = "Processed: " + message.
C7_RequiredFields ==
    [][ /\ IsHttp(req'[MainThread], "POST", "/graph/query") =>
             LET node == Field(req'[MainThread].payload, "node")
             IN  /\ graph' = graph /\ lock' = lock
                 /\ IF node = <<>>
                    THEN resp'[MainThread] = Response(400, [error |-> "'node' is required"])
                    ELSE resp'[MainThread] = Response(200, QueryResult(graph, node))
        /\ IsHttp(req'[MainThread], "POST", "/chat") =>
             LET message == Field(req'[MainThread].payload, "message")
             IN  /\ graph' = graph /\ lock' = lock
                 /\ IF message = <<>>
                    THEN resp'[MainThread] = Response(400, [error |-> "'message' is required"])
                    ELSE resp'[MainThread] =
                           Response(200, [response |-> ProcessedPrefix \o message])
      ]_vars

\* a query with an empty node field, answered 400, on a graph that has nodes
C7_Witness ==
    /\ IsHttp(req[MainThread], "POST", "/graph/query")
    /\ req[MainThread].payload = [node |-> <<>>]
    /\ resp[MainThread].status = 400
    /\ DOMAIN graph.node # {}

\* C8: POST /document/analyze answers 200 to every payload, with length the
\* length of content (0 without the field) and summary the first
\* min(100, length) characters of content.
C8_DocumentAnalyze ==
    IsHttp(req[MainThread], "POST", "/document/analyze") =>
        LET content == Field(req[MainThread].payload, "content")
            n == IF Len(content) < 100 THEN Len(content) ELSE 100
            r == resp[MainThread]
        IN  /\ r.kind = "http" /\ r.status = 200
            /\ DOMAIN r.json = {"summary", "length"}
            /\ r.json.length = Len(content)
            /\ Len(r.json.summary) = n
            /\ \A i \in 1..n : r.json.summary[i] = content[i]

\* a content of 250 characters, summarised in exactly 100
C8_Witness ==
    /\ IsHttp(req[MainThread], "POST", "/document/analyze")
    /\ Len(Field(req[MainThread].payload, "content")) = 250
    /\ Len(resp[MainThread].json.summary) = 100
    /\ resp[MainThread].json.length = 250

\* C9: GET /graph/all is answered 200 with a body that has the keys nodes
\* and links, nodes holding an entry with id = n for every node n.
C9_GraphAllServed ==
    IsHttp(req[MainThread], "GET", "/graph/all") =>
        LET r == resp[MainThread]
        IN  /\ r.kind = "http" /\ r.status = 200
            /\ {"nodes", "links"} \subseteq DOMAIN r.json
            /\ \A n \in DOMAIN graph.node :
                  \E i \in 1..Len(r.json.nodes) : r.json.nodes[i].id = n

(***************************************************************************)
(* Properties of the concurrent graph service (ConcSpec, FairSpec).         *)
(***************************************************************************)
InQuery(t) ==
    \/ pc[t] \in {"q_contains", "q_data", "q_edges"}
    \/ pc[t] = "release" /\ req[t].op = "query_node"

\* every edge is stored at both of its endpoints
Symmetric(G) ==
    \A u \in DOMAIN G.adj :
        \A i \in 1..Len(G.adj[u]) :
            LET v == G.adj[u][i]
            IN  IF v \in DOMAIN G.adj THEN InSeq(G.adj[v], u) ELSE FALSE

\* C2: at most one thread is between taking the lock and giving it back,
\* and the lock is held then; while a query runs the graph is whole (every
\* edge has both endpoints as nodes and is stored at both), the attributes
\* the query has read are those the node has now, and the result it is
\* about to return is the result of the whole query on the graph as it is.
C2_OperationsAtomic ==
    /\ Cardinality({t \in Threads : pc[t] \in Inside}) <= 1
    /\ (\E t \in Threads : pc[t] \in Inside) => lock
    /\ \A t \in Threads :
          InQuery(t) =>
             /\ EndpointsExist(graph)
             /\ Symmetric(graph)
             /\ pc[t] = "q_edges" =>
                  resp[t] = Partial([exists |-> TRUE, data |-> graph.node[req[t].node_id]])
             /\ pc[t] = "release" =>
                  resp[t] = Returned(QueryResult(graph, req[t].node_id))

\* a query between its two reads while an add_edge waits for the lock
C2_Witness ==
    \E t, w \in Threads :
        /\ pc[t] = "q_edges"
        /\ pc[w] = "acquire"
        /\ req[w].op = "add_edge"
        /\ req[w].source # req[w].target
        /\ lock

LockFreeWhenQuiet == (\A t \in Threads : pc[t] \notin Inside) => lock = FALSE

NoDeadlock ==
    (\E t \in Threads : pc[t] # "idle") =>
        \E t \in Threads : ENABLED (Acquire(t) \/ Body(t))

\* the lock is taken only when it is free
AcquireOnlyFree ==
    \A t \in Threads : (pc[t] = "acquire" /\ pc'[t] \in Inside) => ~lock /\ lock'

====
